---- MODULE Spec2Model ----
(***************************************************************************)
(* Model of the resume extraction pipeline: the provider dispatcher        *)
(* (resumeparser.py), the batch runner and its helpers                     *)
(* (batch_validator.py) and the upload handler (app.py).                   *)
(*                                                                         *)
(* Python values are records tagged by `py`.  A str is the tuple of its    *)
(* characters; a dict is a record over the keys the code reads, a missing  *)
(* key holding Absent.  A text returned by an LLM backend is a tuple of    *)
(* tokens.  A call that raises an exception yields Raise(kind).            *)
(***************************************************************************)
EXTENDS Integers, Sequences, FiniteSets, TLC

VARIABLES
    call, ret,                      \* a call of one function and its outcome
    RESUME_URLS, idx, pc,           \* batch run: the list, the loop position
    filepath, resume_text, parser_output_str, result_row,
    extraction_results,             \* rows appended so far
    temp_disk,                      \* files present in DOWNLOAD_FOLDER
    json_disk,                      \* files present in JSON_OUTPUT_FOLDER
    report,                         \* the CSV written, NoReport before
    req, upload_disk                \* /process requests and UPLOAD_FOLDER

fnVars == <<call, ret>>
batchVars == <<RESUME_URLS, idx, pc, filepath, resume_text, parser_output_str,
               result_row, extraction_results, temp_disk, json_disk, report>>
upVars == <<req, upload_disk>>
vars == <<call, ret, RESUME_URLS, idx, pc, filepath, resume_text,
          parser_output_str, result_row, extraction_results, temp_disk, json_disk, report,
          req, upload_disk>>

(***************************************************************************)
(* Bounds                                                                  *)
(***************************************************************************)
MaxNameLen == 4
MaxJobs == 2
MaxUrls == 3
MaxReq == 2

(***************************************************************************)
(* Python values                                                           *)
(***************************************************************************)
None == [py |-> "None"]
Absent == [py |-> "absent"]
PyStr(cs) == [py |-> "str", chars |-> cs]
PyInt(n) == [py |-> "int", n |-> n]
PyList(xs) == [py |-> "list", items |-> xs]
Raise(kind) == [py |-> "raise", exc |-> kind]
IsRaise(v) == v.py = "raise"

\* dict.get(key, default): the default only when the key is missing
Get(d, key, default) == IF d[key] = Absent THEN default ELSE d[key]

\* Python truthiness of the values the code tests with `not` / `if`
Truthy(v) ==
    CASE v.py = "None" -> FALSE
      [] v.py = "absent" -> FALSE
      [] v.py = "str" -> v.chars # <<>>
      [] v.py = "int" -> v.n # 0
      [] v.py = "list" -> v.items # <<>>
      [] v.py = "bool" -> v.b
      [] OTHER -> TRUE

(***************************************************************************)
(* Characters                                                              *)
(***************************************************************************)
Digit == {"0", "1", "2", "3", "4", "5", "6", "7", "8", "9"}
Letter == {"A", "B", "x", "p", "a", "r", "s", "e", "d", "u", "m"}
DigitVal(c) ==
    CASE c = "0" -> 0 [] c = "1" -> 1 [] c = "2" -> 2 [] c = "3" -> 3
      [] c = "4" -> 4 [] c = "5" -> 5 [] c = "6" -> 6 [] c = "7" -> 7
      [] c = "8" -> 8 [] c = "9" -> 9

\* KeepChar letting the underscore through as well
KeepCharOrUnderscore(c) == c \in Letter \/ c \in Digit \/ c = " " \/ c = "_"

\* str.isalpha() or str.isdigit() or c == ' ' of one character
KeepChar(c) == c \in Letter \/ c \in Digit \/ c = " "

RECURSIVE SelectChars(_)
\* "".join([c for c in full_name if c.isalpha() or c.isdigit() or c==' '])
SelectChars(cs) ==
    IF cs = <<>> THEN <<>>
    ELSE IF KeepChar(Head(cs)) THEN <<Head(cs)>> \o SelectChars(Tail(cs))
         ELSE SelectChars(Tail(cs))

RECURSIVE RStrip(_)
\* str.rstrip() of a string whose only whitespace is ' '
RStrip(cs) ==
    IF cs = <<>> THEN <<>>
    ELSE IF cs[Len(cs)] = " " THEN RStrip(SubSeq(cs, 1, Len(cs) - 1))
         ELSE cs

\* str.replace(' ', '_')
ReplaceSpaces(cs) == [i \in 1..Len(cs) |-> IF cs[i] = " " THEN "_" ELSE cs[i]]

\* lines 199-200 without the '.json' suffix: the sanitized name
SanitizeName(cs) == ReplaceSpaces(RStrip(SelectChars(cs)))

\* The literal default of parsed_data.get('full_name', 'parsed_resume')
ParsedResume ==
    PyStr(<<"p", "a", "r", "s", "e", "d", "_", "r", "e", "s", "u", "m", "e">>)

\* safe_filename of lines 199-200; iterating a non-str full_name raises
SafeFilename(full_name) ==
    IF full_name.py = "str"
    THEN PyStr(SanitizeName(full_name.chars) \o <<".json">>)
    ELSE Raise("TypeError")

(***************************************************************************)
(* Idle values of the variable groups a specification does not use         *)
(***************************************************************************)
NoReport == [written |-> FALSE]
FnIdle == call = [fn |-> "none"] /\ ret = <<>>
BatchIdle ==
    /\ RESUME_URLS = <<>> /\ idx = 0 /\ pc = "idle"
    /\ filepath = None /\ resume_text = None /\ parser_output_str = None
    /\ result_row = None
    /\ extraction_results = <<>> /\ temp_disk = {} /\ json_disk = {}
    /\ report = NoReport
UpIdle == req = <<>> /\ upload_disk = {}

RECURSIVE SeqsUpTo(_, _)
\* all sequences over S of length at most n
SeqsUpTo(S, n) ==
    IF n = 0 THEN {<<>>}
    ELSE LET shorter == SeqsUpTo(S, n - 1)
         IN shorter \cup {Append(s, x) : s \in shorter, x \in S}

(***************************************************************************)
(* Name sanitization applied repeatedly to a name                          *)
(***************************************************************************)
NameChars == {"A", "7", " ", "_", "!"}
Names == SeqsUpTo(NameChars, MaxNameLen)

InitSanitize ==
    /\ call \in {[fn |-> "sanitize", arg |-> PyStr(s)] : s \in Names}
    /\ ret = <<>>
    /\ BatchIdle /\ UpIdle

\* Sanitize the name, then sanitize the sanitized name
Sanitize ==
    /\ call.fn = "sanitize"
    /\ Len(ret) < 2
    /\ ret' = Append(ret, SanitizeName(IF ret = <<>> THEN call.arg.chars
                                        ELSE ret[Len(ret)]))
    /\ UNCHANGED <<call, batchVars, upVars>>

NextSanitize == Sanitize
SpecSanitize == InitSanitize /\ [][NextSanitize]_vars

WithoutUnderscores(cs) == SelectSeq(cs, LAMBDA c : c # "_")

\* C6 as stated: sanitizing an already-sanitized name returns it unchanged
C6_Idempotent == Len(ret) = 2 => ret[2] = ret[1]

\* C6 amended: sanitizing a sanitized name removes its underscores and
\* changes nothing else, so it returns the name unchanged exactly when the
\* sanitized name has no underscore
C6_SecondPassDropsUnderscores ==
    Len(ret) = 2 =>
        /\ ret[2] = WithoutUnderscores(ret[1])
        /\ (ret[2] = ret[1]) <=> (\A i \in 1..Len(ret[1]) : ret[1][i] # "_")

C6_Witness ==
    /\ call.fn = "sanitize" /\ Len(ret) = 2
    /\ \E i \in 1..Len(ret[1]) : ret[1][i] = "_"
    /\ ret[2] # ret[1]

(***************************************************************************)
(* calculate_experience_fallback                                           *)
(***************************************************************************)
DigitChar(n) ==
    CASE n = 0 -> "0" [] n = 1 -> "1" [] n = 2 -> "2" [] n = 3 -> "3"
      [] n = 4 -> "4" [] n = 5 -> "5" [] n = 6 -> "6" [] n = 7 -> "7"
      [] n = 8 -> "8" [] n = 9 -> "9"

RECURSIVE NatToChars(_)
NatToChars(n) ==
    IF n < 10 THEN <<DigitChar(n)>>
    ELSE Append(NatToChars(n \div 10), DigitChar(n % 10))

\* str(v) for the values a duration can hold
PyToStr(v) ==
    CASE v.py = "str" -> v.chars
      [] v.py = "int" -> NatToChars(v.n)
      [] v.py = "None" -> <<"N", "o", "n", "e">>

\* \w of the regular expression
IsWordChar(c) == c \in Letter \/ c \in Digit \/ c = "_" \/ c \in {"N", "o", "n"}

\* \b(19[89]\d|20\d\d)\b matches at position i of cs
YearMatchAt(cs, i) ==
    /\ i + 3 <= Len(cs)
    /\ \/ cs[i] = "1" /\ cs[i + 1] = "9" /\ cs[i + 2] \in {"8", "9"}
          /\ cs[i + 3] \in Digit
       \/ cs[i] = "2" /\ cs[i + 1] = "0" /\ cs[i + 2] \in Digit
          /\ cs[i + 3] \in Digit
    /\ i = 1 \/ ~IsWordChar(cs[i - 1])
    /\ i + 3 = Len(cs) \/ ~IsWordChar(cs[i + 4])

\* int(y) of the four characters at i
YearValue(cs, i) ==
    1000 * DigitVal(cs[i]) + 100 * DigitVal(cs[i + 1])
        + 10 * DigitVal(cs[i + 2]) + DigitVal(cs[i + 3])

RECURSIVE FindYearsFrom(_, _)
\* re.findall scanning from position i: a match consumes its four characters
FindYearsFrom(cs, i) ==
    IF i > Len(cs) THEN <<>>
    ELSE IF YearMatchAt(cs, i)
         THEN <<YearValue(cs, i)>> \o FindYearsFrom(cs, i + 4)
         ELSE FindYearsFrom(cs, i + 1)

\* [int(y) for y in re.findall(pattern, duration)]
FindYears(cs) == FindYearsFrom(cs, 1)

RECURSIVE CollectYears(_)
\* the loop of lines 103-109: years.extend(...) for every job in order
CollectYears(jobs) ==
    IF jobs = <<>> THEN <<>>
    ELSE FindYears(PyToStr(Get(Head(jobs), "duration", PyStr(<<>>))))
             \o CollectYears(Tail(jobs))

SeqMax(xs) == CHOOSE m \in {xs[i] : i \in 1..Len(xs)} :
                  \A i \in 1..Len(xs) : xs[i] <= m
SeqMin(xs) == CHOOSE m \in {xs[i] : i \in 1..Len(xs)} :
                  \A i \in 1..Len(xs) : xs[i] >= m

\* calculate_experience_fallback returning the span for any number of years
FallbackAlwaysSpan(experience_list) ==
    IF ~Truthy(experience_list) THEN 0
    ELSE LET years == CollectYears(experience_list.items)
         IN IF years = <<>> THEN 0 ELSE SeqMax(years) - SeqMin(years)

calculate_experience_fallback(experience_list) ==
    IF ~Truthy(experience_list) THEN 0
    ELSE LET years == CollectYears(experience_list.items)
         IN IF years = <<>> THEN 0
            ELSE IF Len(years) > 1 THEN SeqMax(years) - SeqMin(years)
            ELSE 1

Job(position, company, duration) ==
    [py |-> "dict", position |-> position, company |-> company,
     duration |-> duration]

Chars2015to2018 == <<"2", "0", "1", "5", "-", "2", "0", "1", "8">>
Chars2020 == <<"2", "0", "2", "0">>
Chars2020to2020 == <<"2", "0", "2", "0", " ", "2", "0", "2", "0">>
Chars1979to1980 == <<"1", "9", "7", "9", "-", "1", "9", "8", "0">>
CharsX2015 == <<"x", "2", "0", "1", "5">>
Chars20155 == <<"2", "0", "1", "5", "5">>
Chars2099to2100 == <<"2", "0", "9", "9", "-", "2", "1", "0", "0">>
Chars3y == <<"3", " ", "y">>

Durations ==
    {PyStr(Chars2015to2018), PyStr(Chars2020), PyStr(Chars2020to2020),
     PyStr(Chars1979to1980), PyStr(CharsX2015), PyStr(Chars20155),
     PyStr(Chars2099to2100), PyStr(Chars3y), PyStr(<<>>), PyInt(2018), None,
     Absent}

FallbackJobs == {Job(PyStr(<<"A">>), PyStr(<<"B">>), d) : d \in Durations}

InitFallback ==
    /\ call \in {[fn |-> "fallback", arg |-> PyList(js)] :
                    js \in SeqsUpTo(FallbackJobs, MaxJobs)}
    /\ ret = <<>>
    /\ BatchIdle /\ UpIdle

Fallback ==
    /\ call.fn = "fallback" /\ ret = <<>>
    /\ ret' = <<calculate_experience_fallback(call.arg)>>
    /\ UNCHANGED <<call, batchVars, upVars>>

NextFallback == Fallback
SpecFallback == InitFallback /\ [][NextFallback]_vars

\* A 4-digit token standing alone at position i whose value is in 1980..2099
IsYearToken(cs, i) ==
    /\ i + 3 <= Len(cs)
    /\ \A k \in i..(i + 3) : cs[k] \in Digit
    /\ YearValue(cs, i) \in 1980..2099
    /\ i = 1 \/ ~IsWordChar(cs[i - 1])
    /\ i + 3 = Len(cs) \/ ~IsWordChar(cs[i + 4])

DurationChars(job) == PyToStr(Get(job, "duration", PyStr(<<>>)))

\* <<job, position>> of every year token of the list
YearTokens(jobs) ==
    UNION {{<<j, i>> : i \in {k \in 1..Len(DurationChars(jobs[j])) :
                                 IsYearToken(DurationChars(jobs[j]), k)}} :
           j \in 1..Len(jobs)}

TokenYear(jobs, jp) == YearValue(DurationChars(jobs[jp[1]]), jp[2])
DistinctYears(jobs) == {TokenYear(jobs, jp) : jp \in YearTokens(jobs)}
SetMax(S) == CHOOSE m \in S : \A x \in S : x <= m
SetMin(S) == CHOOSE m \in S : \A x \in S : x >= m

\* C5 as stated: max - min for two or more distinct years, 1 for exactly
\* one distinct year (however often it appears), 0 for none
C5_DistinctYears ==
    (call.fn = "fallback" /\ ret # <<>>) =>
        LET Y == DistinctYears(call.arg.items)
        IN ret[1] = IF Y = {} THEN 0
                    ELSE IF Cardinality(Y) = 1 THEN 1
                    ELSE SetMax(Y) - SetMin(Y)

\* C5 amended: the count is of year tokens, not of distinct years: max - min
\* for two or more tokens (0 when they are all the same year), 1 for exactly
\* one token, 0 for none
C5_YearTokens ==
    (call.fn = "fallback" /\ ret # <<>>) =>
        LET T == YearTokens(call.arg.items)
            Y == DistinctYears(call.arg.items)
        IN ret[1] = IF T = {} THEN 0
                    ELSE IF Cardinality(T) = 1 THEN 1
                    ELSE SetMax(Y) - SetMin(Y)

C5_Witness ==
    /\ call.fn = "fallback" /\ ret # <<>>
    /\ Cardinality(YearTokens(call.arg.items)) >= 2
    /\ Cardinality(DistinctYears(call.arg.items)) = 1
    /\ ret[1] = 0

(***************************************************************************)
(* Texts exchanged with the LLM backends, as tuples of tokens              *)
(***************************************************************************)
\* the markers of a Markdown code fence, with and without the json tag
FenceJson == [tok |-> "fence-json"]
Fence == [tok |-> "fence"]
Ws == [tok |-> "whitespace"]
Prose == [tok |-> "prose"]
JsonTok(v) == [tok |-> "json", doc |-> v]
PyText(toks) == [py |-> "text", toks |-> toks]
PyBool(b) == [py |-> "bool", b |-> b]

\* The keys the callers read from a dict decoded from the dispatcher's output
EmptyDict ==
    [py |-> "dict", error |-> Absent, message |-> Absent, provider |-> Absent,
     full_name |-> Absent, contact_information |-> Absent,
     professional_links |-> Absent, summary |-> Absent, experience |-> Absent,
     total_experience_years |-> Absent, skills |-> Absent]

RECURSIVE LStripWs(_)
LStripWs(toks) ==
    IF toks # <<>> /\ Head(toks) = Ws THEN LStripWs(Tail(toks)) ELSE toks

RECURSIVE RStripWs(_)
RStripWs(toks) ==
    IF toks # <<>> /\ toks[Len(toks)] = Ws
    THEN RStripWs(SubSeq(toks, 1, Len(toks) - 1))
    ELSE toks

\* response.text.strip() and the two replace() calls removing the fences
CleanFences(toks) ==
    SelectSeq(RStripWs(LStripWs(toks)), LAMBDA t : t # FenceJson /\ t # Fence)

\* json.loads: whitespace around one JSON document, anything else fails
JsonLoads(s) ==
    IF s.py # "text" THEN Raise("TypeError")
    ELSE LET body == SelectSeq(s.toks, LAMBDA t : t # Ws)
         IN IF Len(body) = 1 /\ body[1].tok = "json" THEN body[1].doc
            ELSE Raise("JSONDecodeError")

\* json.dumps of a dict
JsonDumps(d) == PyText(<<JsonTok(d)>>)

(***************************************************************************)
(* resumeparser.py                                                         *)
(***************************************************************************)
OpenAIPlaceholder == PyStr(<<"YOUR OPENAI KEY HERE">>)
GeminiPlaceholder == PyStr(<<"YOUR GEMINI KEY HERE">>)

\* The backend's answer: env.reply is the text it sends or Raise(...)
_call_openai(conf, env) ==
    IF ~Truthy(conf.OPENAI_KEY) \/ conf.OPENAI_KEY = OpenAIPlaceholder
    THEN Raise("ValueError: OpenAI API key is missing or not set in config.yaml")
    ELSE env.reply

_call_gemini(conf, env) ==
    IF ~Truthy(conf.GOOGLE_KEY) \/ conf.GOOGLE_KEY = GeminiPlaceholder
    THEN Raise("ValueError: Google API key is missing or not set in config.yaml")
    ELSE IF IsRaise(env.reply) THEN env.reply
    ELSE PyText(CleanFences(env.reply.toks))

OllamaDown ==
    Raise("ConnectionError: Could not connect to Ollama server or the model is not available. Is Ollama running?")

\* env.show: "ok", "404" (model absent), "error" (another ResponseError),
\* "down" (no server); env.pull: "ok" or "fail"
_call_ollama(conf, env) ==
    LET ensured ==
            CASE env.show = "ok" -> TRUE
              [] env.show = "404" -> env.pull = "ok"
              [] OTHER -> FALSE
    IN IF ~ensured \/ IsRaise(env.reply) THEN OllamaDown ELSE env.reply

ErrorEnvelope(e, provider) ==
    [EmptyDict EXCEPT !.error = PyBool(TRUE),
                      !.message = PyStr(<<e.exc>>),
                      !.provider = PyStr(<<provider>>)]

\* extract_resume_data without its try/except
ExtractUnguarded(provider, conf, env) ==
    CASE provider = "openai" -> _call_openai(conf, env)
      [] provider = "gemini" -> _call_gemini(conf, env)
      [] provider = "ollama" -> _call_ollama(conf, env)
      [] OTHER -> Raise("ValueError: Invalid provider specified")

extract_resume_data(provider, conf, env) ==
    LET r == CASE provider = "openai" -> _call_openai(conf, env)
               [] provider = "gemini" -> _call_gemini(conf, env)
               [] provider = "ollama" -> _call_ollama(conf, env)
               [] OTHER -> Raise("ValueError: Invalid provider specified")
    IN IF IsRaise(r) THEN JsonDumps(ErrorEnvelope(r, provider)) ELSE r

(***************************************************************************)
(* One call of the dispatcher under every configuration and backend        *)
(***************************************************************************)
SampleResume ==
    [EmptyDict EXCEPT !.full_name = PyStr(<<"A", " ", "B">>),
                      !.summary = PyStr(<<"x">>)]

Providers == {"openai", "gemini", "ollama", "claude"}
OpenAIKeys == {None, PyStr(<<>>), OpenAIPlaceholder, PyStr(<<"sk-live">>)}
GoogleKeys == {None, PyStr(<<>>), GeminiPlaceholder, PyStr(<<"AIza-live">>)}
Configs == [OPENAI_KEY : OpenAIKeys, GOOGLE_KEY : GoogleKeys]

ReplyTexts ==
    {PyText(<<JsonTok(SampleResume)>>),
     PyText(<<FenceJson, JsonTok(SampleResume), Fence>>),
     PyText(<<Fence, JsonTok(SampleResume), Fence>>),
     PyText(<<Ws, FenceJson, Ws, JsonTok(SampleResume), Ws, Fence, Ws>>),
     PyText(<<Ws, JsonTok(SampleResume), Ws>>),
     PyText(<<Prose, JsonTok(SampleResume)>>),
     PyText(<<Prose>>),
     PyText(<<>>)}

Backends ==
    [show : {"ok", "404", "error", "down"}, pull : {"ok", "fail"},
     reply : ReplyTexts \cup {Raise("APIError")}]

InitDispatch ==
    /\ call \in [fn : {"dispatch"}, provider : Providers, conf : Configs,
                  env : Backends]
    /\ ret = <<>>
    /\ BatchIdle /\ UpIdle

Dispatch ==
    /\ call.fn = "dispatch" /\ ret = <<>>
    /\ ret' = <<extract_resume_data(call.provider, call.conf, call.env)>>
    /\ UNCHANGED <<call, batchVars, upVars>>

NextDispatch == Dispatch
SpecDispatch == InitDispatch /\ [][NextDispatch]_vars

Dispatched == call.fn = "dispatch" /\ ret # <<>>

InvalidProvider == call.provider \notin {"openai", "gemini", "ollama"}

MissingCredentials ==
    \/ call.provider = "openai"
          /\ call.conf.OPENAI_KEY \in {None, PyStr(<<>>), OpenAIPlaceholder}
    \/ call.provider = "gemini"
          /\ call.conf.GOOGLE_KEY \in {None, PyStr(<<>>), GeminiPlaceholder}

\* The request reached the backend and the backend answered with a text
BackendAnswered ==
    /\ ~InvalidProvider /\ ~MissingCredentials
    /\ call.provider = "ollama" =>
           \/ call.env.show = "ok"
           \/ call.env.show = "404" /\ call.env.pull = "ok"
    /\ ~IsRaise(call.env.reply)

MalformedReply == BackendAnswered /\ IsRaise(JsonLoads(call.env.reply))

IsErrorEnvelope(s) ==
    LET v == JsonLoads(s)
    IN v.py = "dict" /\ v.error = PyBool(TRUE)

\* C4 as stated: the dispatcher never throws, and an invalid provider,
\* missing or placeholder credentials and a malformed backend text each
\* give a string that parses as JSON with error = true
C4_AlwaysErrorEnvelope ==
    Dispatched =>
        /\ ~IsRaise(ret[1])
        /\ (InvalidProvider \/ MissingCredentials \/ MalformedReply)
               => IsErrorEnvelope(ret[1])

\* C4 amended: the dispatcher never throws; an invalid provider and missing
\* or placeholder credentials give the error envelope; a malformed backend
\* text is returned as it came (less the fence markers, for gemini), so
\* for openai and ollama the returned string does not parse as JSON
C4_EnvelopeOnlyForExceptions ==
    Dispatched =>
        /\ ~IsRaise(ret[1])
        /\ (InvalidProvider \/ MissingCredentials) => IsErrorEnvelope(ret[1])
        /\ MalformedReply =>
               /\ ret[1] = IF call.provider = "gemini"
                           THEN PyText(CleanFences(call.env.reply.toks))
                           ELSE call.env.reply
               /\ call.provider # "gemini" => IsRaise(JsonLoads(ret[1]))

C4_Witness ==
    /\ Dispatched /\ MalformedReply /\ call.provider = "openai"
    /\ IsRaise(JsonLoads(ret[1]))

HasFence(toks) == \E i \in 1..Len(toks) : toks[i] \in {Fence, FenceJson}

\* C9: for every provider the string returned after a successful backend
\* call carries no code-fence marker of the backend's raw output
C9_FencesStripped ==
    (Dispatched /\ BackendAnswered) =>
        ~HasFence(ret[1].toks)

(***************************************************************************)
(* flatten_parsed_data                                                     *)
(***************************************************************************)
Contact(email, phone) == [py |-> "dict", email |-> email, phone |-> phone]
Links(linkedin, github, portfolio) ==
    [py |-> "dict", linkedin |-> linkedin, github |-> github,
     portfolio |-> portfolio]
Skills(technical, soft) ==
    [py |-> "dict", technical |-> technical, soft |-> soft]

\* the {} default of parsed_data.get(key, {})
NoContact == Contact(Absent, Absent)
NoLinks == Links(Absent, Absent, Absent)
NoSkills == Skills(Absent, Absent)

\* one f-string of exp_strings: position, company and duration of a job
ExpString(job) ==
    [position |-> Get(job, "position", PyStr(<<>>)),
     company |-> Get(job, "company", PyStr(<<>>)),
     duration |-> Get(job, "duration", PyStr(<<>>))]

flatten_parsed_data(parsed_data) ==
    IF parsed_data.py # "dict" THEN Raise("AttributeError")
    ELSE
    LET contact == Get(parsed_data, "contact_information", NoContact)
        links == Get(parsed_data, "professional_links", NoLinks)
        experience == Get(parsed_data, "experience", PyList(<<>>))
        given == Get(parsed_data, "total_experience_years", PyInt(0))
        skills == Get(parsed_data, "skills", NoSkills)
        technical == Get(skills, "technical", PyList(<<>>))
        soft == Get(skills, "soft", PyList(<<>>))
    IN  \* lines 122-126: .get on the nested objects
        IF contact.py # "dict" \/ links.py # "dict" THEN Raise("AttributeError")
        \* line 151: skills.get, then list + list
        ELSE IF skills.py # "dict" THEN Raise("AttributeError")
        ELSE IF technical.py # "list" \/ soft.py # "list" THEN Raise("TypeError")
        ELSE [py |-> "flat",
              FullName |-> Get(parsed_data, "full_name", None),
              Email |-> Get(contact, "email", None),
              Phone |-> Get(contact, "phone", None),
              LinkedIn |-> Get(links, "linkedin", None),
              GitHub |-> Get(links, "github", None),
              Portfolio |-> Get(links, "portfolio", None),
              Summary |-> Get(parsed_data, "summary", None),
              YearsOfExperience |->
                  IF ~Truthy(given) /\ Truthy(experience)
                  THEN PyInt(calculate_experience_fallback(experience))
                  ELSE given,
              Title |-> IF Truthy(experience)
                        THEN Get(experience.items[1], "position", PyStr(<<>>))
                        ELSE PyStr(<<>>),
              Company |-> IF Truthy(experience)
                          THEN Get(experience.items[1], "company", PyStr(<<>>))
                          ELSE PyStr(<<>>),
              FullExperience |->
                  IF Truthy(experience)
                  THEN [i \in 1..Len(experience.items) |->
                            ExpString(experience.items[i])]
                  ELSE <<>>,
              Skills |-> technical.items \o soft.items]

(***************************************************************************)
(* One call of flatten_parsed_data on records of every nesting             *)
(***************************************************************************)
SampleJob == Job(PyStr(<<"e">>), PyStr(<<"A">>), PyStr(Chars2015to2018))

FlattenRecords ==
    {[EmptyDict EXCEPT !.full_name = n, !.contact_information = c,
                       !.professional_links = l, !.experience = x,
                       !.skills = k, !.total_experience_years = y] :
        n \in {Absent, PyStr(<<"A", " ", "B">>)},
        c \in {Absent, None, Contact(PyStr(<<"a">>), None)},
        l \in {Absent, None, Links(None, PyStr(<<"u">>), Absent)},
        x \in {Absent, None, PyList(<<>>), PyList(<<SampleJob>>)},
        k \in {Absent, None, Skills(PyList(<<"s">>), PyList(<<"d">>)),
               Skills(Absent, PyList(<<"d">>)), Skills(None, PyList(<<"d">>))},
        y \in {Absent, PyInt(0), PyInt(5)}}

InitFlatten ==
    /\ call \in {[fn |-> "flatten", arg |-> d] : d \in FlattenRecords}
    /\ ret = <<>>
    /\ BatchIdle /\ UpIdle

Flatten ==
    /\ call.fn = "flatten" /\ ret = <<>>
    /\ ret' = <<flatten_parsed_data(call.arg)>>
    /\ UNCHANGED <<call, batchVars, upVars>>

NextFlatten == Flatten
SpecFlatten == InitFlatten /\ [][NextFlatten]_vars

MissingOrNull(v) == v = Absent \/ v = None

\* every nested object of the record is missing, null or a well-formed object
NestedWellFormedOrNull(d) ==
    /\ MissingOrNull(d.skills)
           \/ (d.skills.technical.py = "list" /\ d.skills.soft.py = "list")

\* C8: when a nested object (or the experience list) of the record is missing
\* or null, flatten returns a flat record whose sub-fields for it are null or
\* empty, and does not raise
C8_NullSafe ==
    (call.fn = "flatten" /\ ret # <<>> /\ NestedWellFormedOrNull(call.arg)) =>
        /\ ~IsRaise(ret[1])
        /\ MissingOrNull(call.arg.contact_information) =>
               ret[1].Email = None /\ ret[1].Phone = None
        /\ MissingOrNull(call.arg.professional_links) =>
               /\ ret[1].LinkedIn = None /\ ret[1].GitHub = None
               /\ ret[1].Portfolio = None
        /\ MissingOrNull(call.arg.skills) => ret[1].Skills = <<>>
        /\ MissingOrNull(call.arg.experience) =>
               /\ ret[1].Title = PyStr(<<>>) /\ ret[1].Company = PyStr(<<>>)
               /\ ret[1].FullExperience = <<>>

(***************************************************************************)
(* batch_validator.py: helpers of the batch run                            *)
(***************************************************************************)
\* A URL: its scheme and the last segment of its path, split at the extension
Url(scheme, stem, ext) == [scheme |-> scheme, stem |-> stem, ext |-> ext]

\* StartsWithHttp testing only that the URL has a scheme
AcceptAnyScheme(url) == url.scheme # ""

\* isinstance(url, str) and url.startswith('http')
StartsWithHttp(url) == url.scheme \in {"http", "https"}

\* download_file: fetch is "ok" or "error" (a RequestException); the name is
\* the last segment of the URL, resume_<hash> when that is empty, with '.pdf'
\* or '.docx' appended by the content type; None on failure
download_file(url, fetch, content_type) ==
    LET filename == IF url.stem \o url.ext = "" THEN "resume_hash"
                    ELSE url.stem \o url.ext
    IN IF fetch # "ok" THEN None
       ELSE IF content_type = "pdf" /\ url.ext # ".pdf"
            THEN [py |-> "path", stem |-> filename, ext |-> ".pdf"]
       ELSE IF content_type = "word" /\ url.ext \notin {".docx", ".doc"}
            THEN [py |-> "path", stem |-> filename, ext |-> ".docx"]
       ELSE [py |-> "path", stem |-> IF url.stem \o url.ext = "" THEN filename
                                     ELSE url.stem,
             ext |-> url.ext]

\* read_resume_text: parsed is what the PDF/DOCX library yields for the
\* file: a text, an empty text, or Raise(...)
read_resume_text(path, parsed) ==
    IF path = None THEN None
    ELSE IF path.ext \in {".pdf", ".docx"}
         THEN IF IsRaise(parsed) THEN None ELSE parsed
    ELSE None

\* str(v) inside an f-string, for the message of an error envelope
Format(v) == IF v.py = "str" /\ Len(v.chars) = 1 THEN v.chars[1] ELSE "None"

NoFlat == [py |-> "absent"]
Row(url, status, flat) == [Resume_URL |-> url, Status |-> status, flat |-> flat]

column_order ==
    <<"Resume_URL", "Status", "Title", "YearsOfExperience", "Company",
      "Skills", "FullName", "Email", "Phone", "LinkedIn", "GitHub",
      "Portfolio", "Summary", "FullExperience">>

\* the keys of one result_row
RowKeys(row) ==
    {"Resume_URL", "Status"} \cup
        (IF row.flat = NoFlat THEN {} ELSE DOMAIN row.flat \ {"py"})

\* ReportOf selecting every column of column_order, present or not
ReportAllColumns(rows) ==
    [written |-> TRUE, columns |-> column_order, rows |-> rows]

\* report_df[existing_columns]: the columns of column_order some row has
ReportOf(rows) ==
    LET present == UNION {RowKeys(rows[i]) : i \in 1..Len(rows)}
    IN [written |-> TRUE,
        columns |-> SelectSeq(column_order, LAMBDA c : c \in present),
        rows |-> rows]

PROVIDER == "ollama"

(***************************************************************************)
(* run_extraction, one action per stage of the loop body                   *)
(***************************************************************************)
Urls ==
    {Url("ftp", "cv", ".pdf"), Url("https", "a", ".pdf"),
     Url("https", "c", ".doc"), Url("http", "d", "")}

DocGood ==
    [EmptyDict EXCEPT !.full_name = PyStr(<<"A", " ", "B">>),
                      !.contact_information = Contact(PyStr(<<"a">>), None),
                      !.experience = PyList(<<SampleJob>>),
                      !.skills = Skills(PyList(<<"s">>), PyList(<<"d">>))]
DocSameFile == [EmptyDict EXCEPT !.full_name = PyStr(<<"A", " ", "B", "!">>)]
DocSymbols == [EmptyDict EXCEPT !.full_name = PyStr(<<"!", "?">>)]
DocNoName == [EmptyDict EXCEPT !.summary = PyStr(<<"x">>)]
DocNullName == [EmptyDict EXCEPT !.full_name = None]
DocNullContact ==
    [EmptyDict EXCEPT !.full_name = PyStr(<<"B">>),
                      !.contact_information = None]
DocArray == PyList(<<>>)

BatchDocs ==
    {DocGood, DocSameFile, DocSymbols, DocNoName, DocNullName, DocNullContact,
     DocArray}

BatchReplies ==
    {PyText(<<JsonTok(d)>>) : d \in BatchDocs}
        \cup {PyText(<<Prose>>), PyText(<<FenceJson, JsonTok(DocGood), Fence>>),
              Raise("ResponseError")}

BatchBackends ==
    {[show |-> "ok", pull |-> "ok", reply |-> r] : r \in BatchReplies}
        \cup {[show |-> "down", pull |-> "ok", reply |-> PyText(<<JsonTok(DocGood)>>)]}

BatchConf == [OPENAI_KEY |-> None, GOOGLE_KEY |-> None]

PageTexts == {PyStr(<<"resume text">>), PyStr(<<>>), Raise("PdfReadError")}

Init ==
    /\ RESUME_URLS \in SeqsUpTo(Urls, MaxUrls)
    /\ idx = 1 /\ pc = "start"
    /\ filepath = None /\ resume_text = None /\ parser_output_str = None
    /\ result_row = None
    /\ extraction_results = <<>> /\ temp_disk = {} /\ json_disk = {}
    /\ report = NoReport
    /\ FnIdle /\ UpIdle

url == RESUME_URLS[idx]
parsed_data == JsonLoads(parser_output_str)

\* extraction_results.append(result_row); continue
AppendAndContinue(row) ==
    /\ extraction_results' = Append(extraction_results, row)
    /\ idx' = idx + 1
    /\ pc' = "loop"
    /\ filepath' = None /\ resume_text' = None /\ parser_output_str' = None
    /\ result_row' = None

\* lines 159-163
Start ==
    /\ pc = "start"
    /\ pc' = IF RESUME_URLS = <<>> THEN "done" ELSE "loop"
    /\ UNCHANGED <<RESUME_URLS, idx, filepath, resume_text, parser_output_str,
                   result_row, extraction_results, temp_disk, json_disk,
                   report, fnVars, upVars>>

\* lines 165-172
NextUrl ==
    /\ pc = "loop" /\ idx <= Len(RESUME_URLS)
    /\ IF ~StartsWithHttp(url)
       THEN AppendAndContinue(Row(url, "Skipped - Invalid URL", NoFlat))
       ELSE /\ pc' = "download"
            /\ result_row' = Row(url, "", NoFlat)
            /\ UNCHANGED <<idx, filepath, resume_text, parser_output_str,
                           extraction_results>>
    /\ UNCHANGED <<RESUME_URLS, temp_disk, json_disk, report, fnVars, upVars>>

\* lines 175-179
Download ==
    /\ pc = "download"
    /\ \E fetch \in {"ok", "error"}, content_type \in {"pdf", "word", "other"} :
          LET got == download_file(url, fetch, content_type)
          IN IF ~Truthy(got)
             THEN /\ AppendAndContinue(Row(url, "Failed - Download", NoFlat))
                  /\ UNCHANGED temp_disk
             ELSE /\ filepath' = got
                  /\ temp_disk' = temp_disk \cup {got}
                  /\ pc' = "read"
                  /\ UNCHANGED <<idx, resume_text, parser_output_str,
                                 result_row, extraction_results>>
    /\ UNCHANGED <<RESUME_URLS, json_disk, report, fnVars, upVars>>

\* lines 181-187
ReadText ==
    /\ pc = "read"
    /\ \E parsed \in PageTexts :
          LET text == read_resume_text(filepath, parsed)
          IN IF ~Truthy(text)
             THEN /\ AppendAndContinue(
                         Row(url, "Failed - Text Extraction or Unsupported .doc",
                             NoFlat))
                  /\ temp_disk' = temp_disk \ {filepath}
             ELSE /\ resume_text' = text
                  /\ pc' = "dispatch"
                  /\ UNCHANGED <<idx, filepath, parser_output_str, result_row,
                                 extraction_results, temp_disk>>
    /\ UNCHANGED <<RESUME_URLS, json_disk, report, fnVars, upVars>>

\* line 189
DispatchLLM ==
    /\ pc = "dispatch"
    /\ \E env \in BatchBackends :
          parser_output_str' = extract_resume_data(PROVIDER, BatchConf, env)
    /\ pc' = "decode"
    /\ UNCHANGED <<RESUME_URLS, idx, filepath, resume_text, result_row,
                   extraction_results, temp_disk, json_disk, report, fnVars,
                   upVars>>

\* lines 191-194 and 211-212: only JSONDecodeError is caught
Decode ==
    /\ pc = "decode"
    /\ IF IsRaise(parsed_data)
       THEN /\ result_row' = [result_row EXCEPT !.Status = "Failed - JSON Decode"]
            /\ pc' = "finish"
       ELSE IF parsed_data.py # "dict"
       THEN /\ pc' = "crashed"
            /\ UNCHANGED result_row
       ELSE IF Truthy(Get(parsed_data, "error", None))
       THEN /\ result_row' =
                   [result_row EXCEPT !.Status =
                       "Failed - Parser Error: "
                           \o Format(Get(parsed_data, "message", None))]
            /\ pc' = "finish"
       ELSE /\ pc' = "save"
            /\ UNCHANGED result_row
    /\ UNCHANGED <<RESUME_URLS, idx, filepath, resume_text, parser_output_str,
                   extraction_results, temp_disk, json_disk, report, fnVars,
                   upVars>>

\* lines 197-205: the file of the same name is overwritten
SaveJson ==
    /\ pc = "save"
    /\ LET safe_filename == SafeFilename(Get(parsed_data, "full_name", ParsedResume))
       IN IF IsRaise(safe_filename)
          THEN /\ pc' = "crashed"
               /\ UNCHANGED json_disk
          ELSE /\ json_disk' =
                      {f \in json_disk : f.name # safe_filename.chars}
                          \cup {[name |-> safe_filename.chars,
                                 content |-> parsed_data, of |-> idx]}
               /\ pc' = "flatten"
    /\ UNCHANGED <<RESUME_URLS, idx, filepath, resume_text, parser_output_str,
                   result_row, extraction_results, temp_disk, report, fnVars,
                   upVars>>

\* lines 208-210
FlattenRow ==
    /\ pc = "flatten"
    /\ LET flat_data == flatten_parsed_data(parsed_data)
       IN IF IsRaise(flat_data)
          THEN /\ pc' = "crashed"
               /\ UNCHANGED result_row
          ELSE /\ result_row' = Row(url, "Processed", flat_data)
               /\ pc' = "finish"
    /\ UNCHANGED <<RESUME_URLS, idx, filepath, resume_text, parser_output_str,
                   extraction_results, temp_disk, json_disk, report, fnVars,
                   upVars>>

\* lines 214-217
Finish ==
    /\ pc = "finish"
    /\ AppendAndContinue(result_row)
    /\ temp_disk' = temp_disk \ {filepath}
    /\ UNCHANGED <<RESUME_URLS, json_disk, report, fnVars, upVars>>

\* lines 219-230
WriteReport ==
    /\ pc = "loop" /\ idx > Len(RESUME_URLS)
    /\ report' = ReportOf(extraction_results)
    /\ pc' = "done"
    /\ UNCHANGED <<RESUME_URLS, idx, filepath, resume_text, parser_output_str,
                   result_row, extraction_results, temp_disk, json_disk,
                   fnVars, upVars>>

Next ==
    \/ Start \/ NextUrl \/ Download \/ ReadText \/ DispatchLLM \/ Decode
    \/ SaveJson \/ FlattenRow \/ Finish \/ WriteReport

Spec == Init /\ [][Next]_vars

\* The interpreter runs the script to its end or to an uncaught exception
FairSpec == Spec /\ WF_vars(Next)

Halted == pc \in {"done", "crashed"}

\* C1: the report of a run over N URLs has exactly N rows, one per input URL
\* in input order, whatever the outcomes were
C1_OneRowPerUrl ==
    (Halted /\ RESUME_URLS # <<>>) =>
        /\ report.written
        /\ Len(report.rows) = Len(RESUME_URLS)
        /\ \A i \in 1..Len(RESUME_URLS) :
               report.rows[i].Resume_URL = RESUME_URLS[i]

\* C2: nothing that happens at one URL halts the run: when the run stops,
\* every URL of the list has been processed and the report is written
C2_FailureNeverHalts ==
    (Halted /\ RESUME_URLS # <<>>) =>
        /\ pc = "done"
        /\ idx = Len(RESUME_URLS) + 1
        /\ report.written

\* C3: between two URLs and after the run, however the processing of the
\* last URL ended, no downloaded temporary file is left on disk
C3_TempFileRemoved ==
    pc \in {"loop", "done", "crashed"} => temp_disk = {}

\* C7: a saved JSON file is named after the sanitized full name, or
\* parsed_resume when the name is absent or sanitizes to nothing; its stem
\* is never empty
C7_FileNameOrFallback ==
    \A f \in json_disk :
        LET full_name == f.content.full_name
            sanitized == IF full_name = Absent THEN <<>>
                         ELSE SanitizeName(full_name.chars)
        IN /\ f.name # <<".json">>
           /\ f.name = IF sanitized = <<>>
                        THEN ParsedResume.chars \o <<".json">>
                        ELSE sanitized \o <<".json">>

(***************************************************************************)
(* app.py: concurrent /process requests sharing UPLOAD_FOLDER              *)
(***************************************************************************)
ALLOWED_EXTENSIONS == {"pdf", "docx"}

Lower(ext) ==
    CASE ext = "PDF" -> "pdf" [] ext = "DOCX" -> "docx" [] OTHER -> ext

\* allowed_file: ext is the part after the last dot, "" when there is no dot
allowed_file(filename) ==
    filename.ext # "" /\ Lower(filename.ext) \in ALLOWED_EXTENSIONS

\* werkzeug's secure_filename on the sample names: spaces become underscores
secure_filename(filename) ==
    [stem |-> IF filename.stem = "my cv" THEN "my_cv" ELSE filename.stem,
     ext |-> filename.ext]

UploadNames ==
    {[stem |-> "cv", ext |-> "pdf"], [stem |-> "my cv", ext |-> "pdf"],
     [stem |-> "my_cv", ext |-> "pdf"], [stem |-> "cv", ext |-> "DOCX"],
     [stem |-> "cv", ext |-> "txt"], [stem |-> "", ext |-> ""]}

Requests == 1..MaxReq

\* what a request got from reading its filepath
Unread == [got |-> "nothing yet"]
Missing == [got |-> "no file"]
BytesOf(r) == [got |-> "bytes", of |-> r]

InitUpload ==
    /\ req \in [Requests -> [pc : {"start"}, upload : UploadNames,
                              filepath : {None}, read : {Unread}]]
    /\ upload_disk = {}
    /\ FnIdle /\ BatchIdle

\* lines 67-83: the checks, then file.save(filepath)
Receive(r) ==
    /\ req[r].pc = "start"
    /\ IF req[r].upload.stem = "" /\ req[r].upload.ext = ""
       THEN /\ req' = [req EXCEPT ![r].pc = "rejected"]
            /\ UNCHANGED upload_disk
       ELSE IF ~allowed_file(req[r].upload)
       THEN /\ req' = [req EXCEPT ![r].pc = "rejected"]
            /\ UNCHANGED upload_disk
       ELSE LET path == secure_filename(req[r].upload)
            IN /\ req' = [req EXCEPT ![r].pc = "saved", ![r].filepath = path]
               /\ upload_disk' =
                      {f \in upload_disk : f.path # path}
                          \cup {[path |-> path, bytes |-> r]}
    /\ UNCHANGED <<fnVars, batchVars>>

\* lines 85-91: read_pdf / read_docx return None when the file is gone
ReadUpload(r) ==
    /\ req[r].pc = "saved"
    /\ LET here == {f \in upload_disk : f.path = req[r].filepath}
       IN req' = [req EXCEPT ![r].pc = "read",
                             ![r].read = IF here = {} THEN Missing
                                         ELSE BytesOf((CHOOSE f \in here : TRUE).bytes)]
    /\ UNCHANGED <<upload_disk, fnVars, batchVars>>

\* line 93: os.remove raises FileNotFoundError when the file is gone
RemoveUpload(r) ==
    /\ req[r].pc = "read"
    /\ IF \E f \in upload_disk : f.path = req[r].filepath
       THEN /\ upload_disk' = {f \in upload_disk : f.path # req[r].filepath}
            /\ req' = [req EXCEPT ![r].pc = "removed"]
       ELSE /\ req' = [req EXCEPT ![r].pc = "error"]
            /\ UNCHANGED upload_disk
    /\ UNCHANGED <<fnVars, batchVars>>

NextUpload == \E r \in Requests : Receive(r) \/ ReadUpload(r) \/ RemoveUpload(r)
SpecUpload == InitUpload /\ [][NextUpload]_vars

\* C10: the temporary path of an upload is its own: a request reads the
\* bytes it saved, never another request's and never a missing file, and its
\* remove never fails
C10_RequestScopedPath ==
    \A r \in DOMAIN req :
        /\ req[r].read \in {Unread, BytesOf(r)}
        /\ req[r].pc # "error"

(***************************************************************************)
(* The report of a batch run                                               *)
(***************************************************************************)
SomeRowProcessed ==
    \E i \in 1..Len(report.rows) : report.rows[i].Status = "Processed"

\* C11 as stated: the CSV written by a run over a non-empty list has all
\* fourteen columns of the fixed sequence, whatever the outcomes were
C11_AllColumnsAlways ==
    (report.written /\ RESUME_URLS # <<>>) => report.columns = column_order

\* C11 amended: the CSV a run writes has the columns of the fixed sequence
\* that some row holds, in that order: all fourteen when at least one URL was
\* processed successfully, only Resume_URL and Status when none was
C11_ColumnsOfSomeRow ==
    (report.written /\ RESUME_URLS # <<>>) =>
        report.columns = IF SomeRowProcessed THEN column_order
                         ELSE <<"Resume_URL", "Status">>

C11_Witness ==
    /\ pc = "done" /\ report.written /\ Len(report.rows) = Len(RESUME_URLS)
    /\ Len(RESUME_URLS) > 0
    /\ ~SomeRowProcessed
    /\ report.columns = <<"Resume_URL", "Status">>

(***************************************************************************)
(* The stages of one URL                                                   *)
(***************************************************************************)
StatusTaxonomy ==
    {"Skipped - Invalid URL", "Failed - Download",
     "Failed - Text Extraction or Unsupported .doc", "Failed - JSON Decode",
     "Processed"}

IsParserError(status) ==
    \E message \in {OllamaDown.exc, "None"} :
        status = "Failed - Parser Error: " \o message

HasText(v) == v.py = "str" /\ v.chars # <<>>
DecodedRecord == parsed_data.py = "dict" /\ parsed_data.error # PyBool(TRUE)
RowAppended == Len(extraction_results') = Len(extraction_results) + 1
NewRow == extraction_results'[Len(extraction_results')]

\* One step of the run respects the order of the stages
StageStep ==
    \* validate, then download: only a URL that starts with http
    /\ pc' = "download" => pc = "loop" /\ url.scheme \in {"http", "https"}
    /\ temp_disk' \ temp_disk # {} =>
           pc = "download" /\ url.scheme \in {"http", "https"}
    \* download, then extract text: only a file that was downloaded
    /\ pc' = "read" => pc = "download" /\ filepath' \in temp_disk'
    \* extract text, then dispatch: only a text that is there and not empty
    /\ pc' = "dispatch" => pc = "read" /\ HasText(resume_text')
    /\ (parser_output_str' # parser_output_str /\ parser_output_str' # None) =>
           pc = "dispatch" /\ HasText(resume_text)
    \* dispatch, then decode, then the JSON file: only a decoded record
    /\ pc' = "decode" => pc = "dispatch"
    /\ pc' = "save" => pc = "decode" /\ DecodedRecord
    /\ json_disk' # json_disk => pc = "save" /\ DecodedRecord
    \* the row carries the status of the first stage that failed
    /\ RowAppended =>
           /\ NewRow.Resume_URL = url
           /\ NewRow.Status \in StatusTaxonomy \/ IsParserError(NewRow.Status)
           /\ CASE pc = "loop" ->
                      /\ url.scheme \notin {"http", "https"}
                      /\ NewRow.Status = "Skipped - Invalid URL"
                 [] pc = "download" -> NewRow.Status = "Failed - Download"
                 [] pc = "read" ->
                      NewRow.Status = "Failed - Text Extraction or Unsupported .doc"
                 [] pc = "finish" ->
                      IF IsRaise(parsed_data)
                      THEN NewRow.Status = "Failed - JSON Decode"
                      ELSE IF ~DecodedRecord
                      THEN IsParserError(NewRow.Status)
                      ELSE /\ NewRow.Status = "Processed"
                           /\ \E f \in json_disk : f.of = idx
                 [] OTHER -> FALSE

ProcessedRow(rows, i) == i <= Len(rows) /\ rows[i].Status = "Processed"

\* the file name line 199-200 gave the record a 'Processed' row came from
RowFileName(row) ==
    SafeFilename(IF row.flat.FullName = None THEN ParsedResume
                 ELSE row.flat.FullName).chars

\* the URLs processed successfully under the file name of URL i
SameFileName(i) ==
    {j \in 1..Len(extraction_results) :
        /\ ProcessedRow(extraction_results, j)
        /\ RowFileName(extraction_results[j]) = RowFileName(extraction_results[i])}

LastOf(S) == CHOOSE j \in S : \A k \in S : k <= j

Collision(i) ==
    ProcessedRow(extraction_results, i) /\ Cardinality(SameFileName(i)) >= 2

\* one file of that name, holding the record of the last URL that wrote it
LastWriteWins(i) ==
    LET name == RowFileName(extraction_results[i])
        last == LastOf(SameFileName(i))
    IN /\ Cardinality({f \in json_disk : f.name = name}) = 1
       /\ \A f \in json_disk :
              f.name = name =>
                  /\ f.of = last
                  /\ flatten_parsed_data(f.content) = extraction_results[last].flat

\* C13: when the run has stopped and two or more successfully parsed
\* resumes of the list have the same file name, exactly one JSON file of
\* that name exists, it holds the record of the last of them in list order,
\* and each of them has its own 'Processed' row in the report
C13_LastWriteWins ==
    Halted =>
        \A i \in 1..Len(extraction_results) :
            Collision(i) =>
                /\ LastWriteWins(i)
                /\ report.written
                /\ ProcessedRow(report.rows, i)
                /\ report.rows[i].Resume_URL = RESUME_URLS[i]

\* what holds of C13 in every run, crashed or not: the single file and
\* its content; the rows are in the report only when the run got that far
C13_LastWriteWinsOnDisk ==
    pc \in {"loop", "done", "crashed"} =>
        \A i \in 1..Len(extraction_results) :
            Collision(i) =>
                /\ LastWriteWins(i)
                /\ pc = "done" =>
                       /\ report.written
                       /\ ProcessedRow(report.rows, i)
                       /\ report.rows[i].Resume_URL = RESUME_URLS[i]

C13_Witness ==
    /\ pc = "done" /\ report.written
    /\ Collision(1) /\ SameFileName(1) = {1, 3}
    /\ extraction_results[1].flat # extraction_results[3].flat
    /\ LastWriteWins(1)

C13_CrashWitness ==
    /\ pc = "crashed" /\ ~report.written
    /\ Collision(1) /\ SameFileName(1) = {1, 2}
    /\ LastWriteWins(1)

====
